---- MODULE Spec2Model ----
(***************************************************************************)
(* Live vehicle tracking (src/tracking.py): the ConnectionManager registry *)
(* (active_connections), its broadcast loop, and the websocket_location    *)
(* handler, one asyncio task per websocket.  A handler is suspended only   *)
(* at its awaits: accept (line 15), receive_text (line 172) and send_text  *)
(* (line 33); everything between two awaits is one atomic step.            *)
(***************************************************************************)
EXTENDS Integers, Sequences, FiniteSets, TLC

\* ---- bounds of the model ------------------------------------------------
NumConns == 3        \* websockets that ever connect
NumVehicles == 2     \* vehicle ids used in the path
NumLocs == 2         \* distinct {lat, lng} values a client may send
MaxMsgs == 2         \* text frames received by the server, all handlers together
LiveMsgs == 1        \* the same, in the behaviours checked for liveness

Conns == 1..NumConns
Vehicles == 1..NumVehicles
Locations == 1..NumLocs

\* ---- text frames and json ------------------------------------------------
\* A text frame: its layout and the {lat, lng} value it spells.  "compact" is
\* what JSON.stringify produces ({"lat":13.08,"lng":80.27}), "spaced" is what
\* json.dumps produces ({"lat": 13.08, "lng": 80.27}), "garbage" is not JSON.
NoLoc == 0
JsonTexts == [fmt : {"compact", "spaced"}, loc : Locations]
Garbage == [fmt |-> "garbage", loc |-> NoLoc]
\* What the clients send: the pages' JSON.stringify output, or something else.
Texts == {t \in JsonTexts : t.fmt = "compact"} \cup {Garbage}
NoText == [fmt |-> "none", loc |-> NoLoc]

\* json.loads(data): raises JSONDecodeError unless the text is JSON ...
json_loads_raises(t) == t.fmt \notin {"compact", "spaced"}
\* ... and otherwise returns the value, whatever the layout was.
json_loads(t) == t.loc
\* json.dumps(location): always the default ", " / ": " separators.
json_dumps(location) == [fmt |-> "spaced", loc |-> location]

\* ---- python list and dict primitives --------------------------------------
Range(s) == {s[i] : i \in 1..Len(s)}
NoDup(s) == \A i, j \in 1..Len(s) : s[i] = s[j] => i = j

RECURSIVE RemoveFirst(_, _)
RemoveFirst(s, x) ==
    IF s = <<>> THEN <<>>
    ELSE IF Head(s) = x THEN Tail(s)
    ELSE <<Head(s)>> \o RemoveFirst(Tail(s), x)

\* list.remove(x): removes the first occurrence, ValueError when absent.
list_remove(s, x) ==
    IF x \in Range(s) THEN [val |-> RemoveFirst(s, x), err |-> "none"]
    ELSE [val |-> s, err |-> "ValueError"]

\* del d[k]: KeyError when absent.
dict_del(d, k) ==
    IF k \in DOMAIN d THEN [val |-> [x \in (DOMAIN d) \ {k} |-> d[x]], err |-> "none"]
    ELSE [val |-> d, err |-> "KeyError"]

\* d[k] = v
dict_set(d, k, v) == [x \in (DOMAIN d) \cup {k} |-> IF x = k THEN v ELSE d[x]]

EmptyDict == [x \in {} |-> <<>>]

\* ---- ConnectionManager ----------------------------------------------------
\* Faulty variant of connect: assigns a fresh list instead of appending.
ConnectOverwrite(reg, websocket, vehicle_id) ==
    dict_set(reg, vehicle_id, <<websocket>>)

\* connect, after the accept: lines 16-18.
Connect(reg, websocket, vehicle_id) ==
    LET r1 == IF vehicle_id \notin DOMAIN reg
              THEN dict_set(reg, vehicle_id, <<>>) ELSE reg
    IN  dict_set(r1, vehicle_id, Append(r1[vehicle_id], websocket))

\* Faulty variant of disconnect: the emptied list is left under its key.
DisconnectKeepsKey(reg, websocket, vehicle_id) ==
    IF vehicle_id \in DOMAIN reg /\ websocket \in Range(reg[vehicle_id])
    THEN [reg |-> dict_set(reg, vehicle_id, RemoveFirst(reg[vehicle_id], websocket)),
          err |-> "none"]
    ELSE [reg |-> reg, err |-> "none"]

\* Faulty variant of disconnect: list.remove without the membership test.
DisconnectUnguarded(reg, websocket, vehicle_id) ==
    IF vehicle_id \in DOMAIN reg
    THEN LET rm == list_remove(reg[vehicle_id], websocket)
             r1 == dict_set(reg, vehicle_id, rm.val)
         IN  IF rm.err # "none" THEN [reg |-> reg, err |-> rm.err]
             ELSE IF r1[vehicle_id] = <<>>
                  THEN [reg |-> dict_del(r1, vehicle_id).val, err |-> "none"]
                  ELSE [reg |-> r1, err |-> "none"]
    ELSE [reg |-> reg, err |-> "none"]

\* disconnect: lines 22-26.  The result and the exception raised, if any.
Disconnect(reg, websocket, vehicle_id) ==
    IF vehicle_id \in DOMAIN reg
    THEN LET rm == IF websocket \in Range(reg[vehicle_id])
                   THEN list_remove(reg[vehicle_id], websocket)
                   ELSE [val |-> reg[vehicle_id], err |-> "none"]
             r1 == dict_set(reg, vehicle_id, rm.val)
         IN  IF rm.err # "none" THEN [reg |-> reg, err |-> rm.err]
             ELSE IF r1[vehicle_id] = <<>>
                  THEN LET dl == dict_del(r1, vehicle_id)
                       IN  [reg |-> dl.val, err |-> dl.err]
                  ELSE [reg |-> r1, err |-> "none"]
    ELSE [reg |-> reg, err |-> "none"]

\* ---- state ----------------------------------------------------------------
VARIABLES
    active_connections, \* manager.active_connections: vehicle_id -> list of websockets
    vehicle_locations,  \* vehicle_locations: vehicle_id -> last parsed location
    pc,                 \* where each websocket's handler is (websocket_location)
    vid,                \* the vehicle_id path parameter of each handler
    channel,            \* each websocket: "open", or "closed" (peer gone / server closed)
    bc,                 \* the broadcast a handler is inside: list iterator and message
    received,           \* what each client has been sent, in order
    nrecv,              \* text frames received so far
    obs,                \* per handler, a record of its latest broadcast
    member,             \* <<websocket, vehicle_id>> pairs connected and not disconnected since
    lastcall            \* the latest direct call of the manager (ManagerSpec)

vars == <<active_connections, vehicle_locations, pc, vid, channel, bc, received,
          nrecv, obs, member, lastcall>>

NoConn == 0
NoBc == [idx |-> 0, cur |-> NoConn, message |-> NoText, detached |-> FALSE]
NoObs == [n |-> 0, src |-> NoText, start |-> <<>>, dirty |-> FALSE, tried |-> <<>>]
NoCall == [op |-> "none", ws |-> NoConn, v |-> 0, err |-> "none", before |-> EmptyDict,
           streams |-> [c \in Conns |-> <<>>]]

\* Handler positions: "connect" awaiting accept (line 168/15), "receive" awaiting
\* receive_text (line 172), "broadcast" awaiting send_text (line 177/33),
\* "disconnected" returned through line 179, "errored" returned through line 182,
\* "aborted" left by the exception of accept (line 168 is outside the try).
Open == {"receive", "broadcast"}
Closed == {"disconnected", "errored", "aborted"}

Init ==
    /\ active_connections = EmptyDict
    /\ vehicle_locations = [x \in {} |-> NoLoc]
    /\ pc = [c \in Conns |-> "connect"]
    \* websockets are interchangeable: they are numbered by vehicle id
    /\ vid \in {f \in [Conns -> Vehicles] : \A c, d \in Conns : c < d => f[c] <= f[d]}
    /\ channel = [c \in Conns |-> "open"]
    /\ bc = [c \in Conns |-> NoBc]
    /\ received = [c \in Conns |-> <<>>]
    /\ nrecv = 0
    /\ obs = [c \in Conns |-> NoObs]
    /\ member = {}
    /\ lastcall = NoCall

\* ---- the for loop of broadcast (line 31) ------------------------------------
\* Faulty variant of the iterated list: the websockets of every vehicle id.
RECURSIVE AllLists(_, _)
AllLists(reg, n) ==
    IF n = 0 THEN <<>>
    ELSE AllLists(reg, n - 1) \o (IF n \in DOMAIN reg THEN reg[n] ELSE <<>>)
IterEveryVehicle(reg, vehicle_id, b) == AllLists(reg, NumVehicles)

\* The list object the iterator walks: the live list of the registry, or, once
\* disconnect has deleted the key, the emptied list the iterator still holds.
IterList(reg, vehicle_id, b) ==
    IF b.detached \/ vehicle_id \notin DOMAIN reg THEN <<>> ELSE reg[vehicle_id]

\* Faulty variant of the loop test: stops one element early.
ForHasNextShort(reg, vehicle_id, b) == b.idx + 1 < Len(IterList(reg, vehicle_id, b))

\* next() of the list iterator: the element at the index, or StopIteration.
ForHasNext(reg, vehicle_id, b) == b.idx < Len(IterList(reg, vehicle_id, b))
ForNext(reg, vehicle_id, b) ==
    [b EXCEPT !.idx = b.idx + 1, !.cur = IterList(reg, vehicle_id, b)[b.idx + 1]]

\* Handler c runs the loop up to its next await send_text, or out of broadcast
\* and back to await receive_text.  o is the record of this broadcast so far,
\* dropped when broadcast returns.
LoopStep(c, b, o) ==
    IF ForHasNext(active_connections, vid[c], b)
    THEN /\ pc' = [pc EXCEPT ![c] = "broadcast"]
         /\ bc' = [bc EXCEPT ![c] = ForNext(active_connections, vid[c], b)]
         /\ obs' = [obs EXCEPT ![c] = o]
    ELSE /\ pc' = [pc EXCEPT ![c] = "receive"]
         /\ bc' = [bc EXCEPT ![c] = NoBc]
         /\ obs' = [obs EXCEPT ![c] = [NoObs EXCEPT !.n = o.n]]

\* What a change of vehicle_id's list by another task does to the broadcasts
\* suspended on that vehicle.
Touched(k, vehicle_id) == pc[k] = "broadcast" /\ vid[k] = vehicle_id
MarkDirty(vehicle_id) ==
    [k \in Conns |-> IF Touched(k, vehicle_id) THEN [obs[k] EXCEPT !.dirty = TRUE] ELSE obs[k]]
MarkDetached(vehicle_id, reg2) ==
    [k \in Conns |-> IF Touched(k, vehicle_id) /\ vehicle_id \in DOMAIN active_connections
                        /\ vehicle_id \notin DOMAIN reg2
                     THEN [bc[k] EXCEPT !.detached = TRUE] ELSE bc[k]]

\* ---- websocket_location ------------------------------------------------------
\* manager.connect: accept succeeds, the websocket is appended (lines 15-19).
Accept(c) ==
    /\ pc[c] = "connect"
    /\ channel[c] = "open"
    /\ active_connections' = Connect(active_connections, c, vid[c])
    /\ pc' = [pc EXCEPT ![c] = "receive"]
    /\ obs' = MarkDirty(vid[c])
    /\ member' = member \cup {<<c, vid[c]>>}
    /\ UNCHANGED <<vehicle_locations, vid, channel, bc, received, nrecv, lastcall>>

\* Faulty variant: the websocket is appended before accept is awaited.
AcceptFailRegistered(c) ==
    /\ pc[c] = "connect"
    /\ active_connections' = Connect(active_connections, c, vid[c])
    /\ pc' = [pc EXCEPT ![c] = "aborted"]
    /\ channel' = [channel EXCEPT ![c] = "closed"]
    /\ UNCHANGED <<vehicle_locations, vid, bc, received, nrecv, obs, member, lastcall>>

\* accept raises: the handshake failed; line 168 is outside the try.
AcceptFail(c) ==
    /\ pc[c] = "connect"
    /\ pc' = [pc EXCEPT ![c] = "aborted"]
    /\ channel' = [channel EXCEPT ![c] = "closed"]
    /\ UNCHANGED <<active_connections, vehicle_locations, vid, bc, received, nrecv,
                   obs, member, lastcall>>

\* The peer closes, or the connection breaks.
ChannelDrop(c) ==
    /\ channel[c] = "open"
    /\ pc[c] \in Open
    /\ channel' = [channel EXCEPT ![c] = "closed"]
    /\ UNCHANGED <<active_connections, vehicle_locations, pc, vid, bc, received, nrecv,
                   obs, member, lastcall>>

\* Faulty variant: the handler returns and its websocket stays in the list.
LeaveKeepsEntry(c, how) ==
    /\ pc' = [pc EXCEPT ![c] = how]
    /\ channel' = [channel EXCEPT ![c] = "closed"]
    /\ UNCHANGED <<active_connections, bc, obs, member>>

\* The handler leaves its loop through an except clause: manager.disconnect,
\* then the function returns and the server closes the websocket.
Leave(c, how) ==
    LET d == Disconnect(active_connections, c, vid[c])
    IN  /\ d.err = "none"
        /\ active_connections' = d.reg
        /\ pc' = [pc EXCEPT ![c] = how]
        /\ channel' = [channel EXCEPT ![c] = "closed"]
        /\ bc' = MarkDetached(vid[c], d.reg)
        /\ obs' = MarkDirty(vid[c])
        /\ member' = member \ {<<c, vid[c]>>}

\* receive_text returns a text that parses: lines 172-177 up to the first
\* await send_text of broadcast (lines 30-33).
ReceiveUpdate(c) ==
    /\ pc[c] = "receive"
    /\ channel[c] = "open"
    /\ nrecv < MaxMsgs
    /\ \E data \in Texts :
        /\ ~json_loads_raises(data)
        /\ LET location == json_loads(data)
               message == json_dumps(location)
               b == [NoBc EXCEPT !.message = message]
           IN  /\ vehicle_locations' = dict_set(vehicle_locations, vid[c], location)
               /\ LoopStep(c, b, [n |-> obs[c].n + 1, src |-> data,
                             start |-> IterList(active_connections, vid[c], b),
                             dirty |-> FALSE, tried |-> <<>>])
    /\ nrecv' = nrecv + 1
    /\ UNCHANGED <<active_connections, vid, channel, received, member, lastcall>>

\* Faulty variant: the malformed text is dropped and the loop goes on.
ReceiveMalformedTolerated(c) ==
    /\ pc[c] = "receive"
    /\ channel[c] = "open"
    /\ nrecv < MaxMsgs
    /\ \E data \in Texts : json_loads_raises(data)
    /\ nrecv' = nrecv + 1
    /\ UNCHANGED <<active_connections, vehicle_locations, pc, vid, channel, bc,
                   received, obs, member, lastcall>>

\* Faulty variant: the cache is written before the text is parsed.
ReceiveMalformedCached(c) ==
    /\ pc[c] = "receive"
    /\ channel[c] = "open"
    /\ nrecv < MaxMsgs
    /\ \E data \in Texts : json_loads_raises(data)
    /\ nrecv' = nrecv + 1
    /\ vehicle_locations' = dict_set(vehicle_locations, vid[c], NoLoc)
    /\ Leave(c, "errored")
    /\ UNCHANGED <<vid, received, lastcall>>

\* receive_text returns a text json.loads rejects: JSONDecodeError is caught by
\* `except Exception` (lines 180-182).
ReceiveMalformed(c) ==
    /\ pc[c] = "receive"
    /\ channel[c] = "open"
    /\ nrecv < MaxMsgs
    /\ \E data \in Texts : json_loads_raises(data)
    /\ nrecv' = nrecv + 1
    /\ Leave(c, "errored")
    /\ UNCHANGED <<vehicle_locations, vid, received, lastcall>>

\* Faulty variant: the handler returns without calling manager.disconnect.
ReceiveDisconnectLeaks(c) ==
    /\ pc[c] = "receive"
    /\ channel[c] = "closed"
    /\ pc' = [pc EXCEPT ![c] = "disconnected"]
    /\ UNCHANGED <<active_connections, vehicle_locations, vid, channel, bc, received,
                   nrecv, obs, member, lastcall>>

\* Faulty variant: the vehicle's cached location is dropped with the last
\* websocket of the vehicle.
ReceiveDisconnectClearsCache(c) ==
    /\ pc[c] = "receive"
    /\ channel[c] = "closed"
    /\ Leave(c, "disconnected")
    /\ vehicle_locations' = IF vid[c] \in DOMAIN active_connections'
                            THEN vehicle_locations
                            ELSE dict_del(vehicle_locations, vid[c]).val
    /\ UNCHANGED <<vid, received, nrecv, lastcall>>

\* receive_text raises WebSocketDisconnect (lines 178-179).
ReceiveDisconnect(c) ==
    /\ pc[c] = "receive"
    /\ channel[c] = "closed"
    /\ Leave(c, "disconnected")
    /\ UNCHANGED <<vehicle_locations, vid, received, nrecv, lastcall>>

\* ---- ConnectionManager.broadcast ---------------------------------------------
\* Faulty variant of the delivery: the message overtakes what was sent before.
DeliverFirst(stream, m) == <<m>> \o stream

\* send_text puts the message on the client's stream, after what was sent before.
Deliver(stream, m) == Append(stream, m)

\* The awaited send_text completes: the client gets the message; the loop goes on.
SendOk(c) ==
    /\ pc[c] = "broadcast"
    /\ channel[bc[c].cur] = "open"
    /\ received' = [received EXCEPT ![bc[c].cur] =
                      Deliver(@, [from |-> c, n |-> obs[c].n, text |-> bc[c].message])]
    /\ LoopStep(c, bc[c], [obs[c] EXCEPT !.tried = Append(@, <<bc[c].cur, TRUE>>)])
    /\ UNCHANGED <<active_connections, vehicle_locations, vid, channel, nrecv, member,
                   lastcall>>

\* The awaited send_text raises: caught and printed (lines 34-35); the loop goes on.
SendFail(c) ==
    /\ pc[c] = "broadcast"
    /\ channel[bc[c].cur] = "closed"
    /\ LoopStep(c, bc[c], [obs[c] EXCEPT !.tried = Append(@, <<bc[c].cur, FALSE>>)])
    /\ UNCHANGED <<active_connections, vehicle_locations, vid, channel, received, nrecv,
                   member, lastcall>>

Next ==
    \E c \in Conns :
        \/ Accept(c)
        \/ AcceptFail(c)
        \/ ChannelDrop(c)
        \/ ReceiveUpdate(c)
        \/ ReceiveMalformed(c)
        \/ ReceiveDisconnect(c)
        \/ SendOk(c)
        \/ SendFail(c)

Spec == Init /\ [][Next]_vars

\* The event loop resumes a task whose awaited call can return or raise: a
\* pending receive_text on a closed channel raises, a pending send_text returns
\* or raises.  What the clients send, and when they close, is not fair.
Resume(c) == ReceiveDisconnect(c) \/ SendOk(c) \/ SendFail(c)
FairNext == Next /\ nrecv' <= LiveMsgs
FairSpec == Init /\ [][FairNext]_vars /\ \A c \in Conns : WF_vars(Resume(c))

\* ---- the manager called directly ----------------------------------------------
\* connect and disconnect called in any order with any arguments, as a unit test
\* of ConnectionManager would.  accept raises on a websocket accepted before, so
\* a websocket gets past line 15 once.
ApiConnect(ws, v) ==
    /\ pc[ws] = "connect"
    /\ active_connections' = Connect(active_connections, ws, v)
    /\ pc' = [pc EXCEPT ![ws] = "receive"]
    /\ member' = member \cup {<<ws, v>>}
    /\ lastcall' = [op |-> "connect", ws |-> ws, v |-> v, err |-> "none",
                    before |-> active_connections, streams |-> received]
    /\ UNCHANGED <<vehicle_locations, vid, channel, bc, received, nrecv, obs>>

ApiDisconnect(ws, v) ==
    LET d == Disconnect(active_connections, ws, v)
    IN  /\ active_connections' = d.reg
        /\ member' = member \ {<<ws, v>>}
        /\ lastcall' = [op |-> "disconnect", ws |-> ws, v |-> v, err |-> d.err,
                        before |-> active_connections, streams |-> received]
        /\ UNCHANGED <<vehicle_locations, pc, vid, channel, bc, received, nrecv, obs>>

\* self.active_connections[vehicle_id]: KeyError when the id is no key.
dict_get(d, k) ==
    IF k \in DOMAIN d THEN [val |-> d[k], err |-> "none"]
    ELSE [val |-> <<>>, err |-> "KeyError"]

\* The for loop of broadcast run to its end with no other task in between
\* (lines 31-35): every websocket of the list is sent the message, a closed
\* one raising into the except clause.
RECURSIVE BroadcastLoop(_, _, _, _, _)
BroadcastLoop(reg, vehicle_id, b, m, streams) ==
    IF ForHasNext(reg, vehicle_id, b)
    THEN LET b2 == ForNext(reg, vehicle_id, b)
         IN  BroadcastLoop(reg, vehicle_id, b2, m,
                           IF channel[b2.cur] = "open"
                           THEN [streams EXCEPT ![b2.cur] = Deliver(@, m)]
                           ELSE streams)
    ELSE streams

\* Faulty variant of broadcast: the list is looked up without the key test.
BroadcastUnguarded(reg, vehicle_id, m, streams) ==
    LET g == dict_get(reg, vehicle_id)
    IN  IF g.err # "none" THEN [reg |-> reg, streams |-> streams, err |-> g.err]
        ELSE [reg |-> reg, err |-> "none",
              streams |-> BroadcastLoop(reg, vehicle_id, NoBc, m, streams)]

\* broadcast: lines 30-35.  The registry and the clients' streams afterwards,
\* and the exception raised, if any.
Broadcast(reg, vehicle_id, m, streams) ==
    IF vehicle_id \in DOMAIN reg
    THEN LET g == dict_get(reg, vehicle_id)
         IN  IF g.err # "none" THEN [reg |-> reg, streams |-> streams, err |-> g.err]
             ELSE [reg |-> reg, err |-> "none",
                   streams |-> BroadcastLoop(reg, vehicle_id, NoBc, m, streams)]
    ELSE [reg |-> reg, streams |-> streams, err |-> "none"]

\* manager.broadcast called directly, for any vehicle id, registered or not.
ApiBroadcast(v) ==
    /\ nrecv < MaxMsgs
    /\ \E location \in Locations :
          LET r == Broadcast(active_connections, v,
                             [from |-> NoConn, n |-> nrecv + 1,
                              text |-> json_dumps(location)], received)
          IN  /\ active_connections' = r.reg
              /\ received' = r.streams
              /\ lastcall' = [op |-> "broadcast", ws |-> NoConn, v |-> v, err |-> r.err,
                              before |-> active_connections, streams |-> received]
    /\ nrecv' = nrecv + 1
    /\ UNCHANGED <<vehicle_locations, pc, vid, channel, bc, obs, member>>

ManagerNext ==
    \E ws \in Conns, v \in Vehicles :
        \/ ApiConnect(ws, v)
        \/ ApiDisconnect(ws, v)
        \/ ApiBroadcast(v)

ManagerSpec == Init /\ [][ManagerNext]_vars

\* ---- properties ------------------------------------------------------------
\* The list recorded for a vehicle id, empty when the id is no key.
ListOf(reg, v) == IF v \in DOMAIN reg THEN reg[v] ELSE <<>>
MembersOf(v) == {c \in Conns : <<c, v>> \in member}

\* C1: a vehicle id is a key of active_connections if and only if its list is
\* non-empty: no key maps to an empty list, and a vehicle whose last connection
\* was deregistered is no key at all.
C1_KeyIffNonEmpty ==
    \A v \in Vehicles :
        /\ v \in DOMAIN active_connections => active_connections[v] # <<>>
        /\ v \in DOMAIN active_connections <=> MembersOf(v) # {}

\* C1 witness: a handler has left and its vehicle id, once a key, is none.
C1_Witness ==
    \E c \in Conns : /\ pc[c] \in {"disconnected", "errored"}
                     /\ vid[c] \notin DOMAIN active_connections

\* C2: after any sequence of connect and disconnect calls, the list of every
\* vehicle id holds exactly the websockets connected under it and not
\* disconnected since, each of them once.
C2_ExactlyRegistered ==
    \A v \in Vehicles :
        /\ NoDup(ListOf(active_connections, v))
        /\ Range(ListOf(active_connections, v)) = MembersOf(v)

\* C2 witness: a disconnect took one websocket out of a list that keeps another.
C2_Witness ==
    /\ lastcall.op = "disconnect"
    /\ lastcall.v \in DOMAIN lastcall.before
    /\ lastcall.ws \in Range(lastcall.before[lastcall.v])
    /\ ListOf(active_connections, lastcall.v) # <<>>
    /\ lastcall.ws \notin Range(ListOf(active_connections, lastcall.v))

\* C3: disconnect of a websocket that is not in the list of the given vehicle
\* id (the id being a key or not) raises nothing and leaves the registry as it
\* was; disconnecting twice gives what disconnecting once gives.
C3_DisconnectAbsentNoOp ==
    /\ (lastcall.op = "disconnect"
          /\ lastcall.ws \notin Range(ListOf(lastcall.before, lastcall.v)))
       => (lastcall.err = "none" /\ active_connections = lastcall.before)
    /\ \A ws \in Conns, v \in Vehicles :
          LET once == Disconnect(active_connections, ws, v)
              twice == Disconnect(once.reg, ws, v)
          IN  once.err = "none" /\ twice.err = "none" /\ twice.reg = once.reg

\* C3 witness: the latest call disconnected a websocket under a vehicle id that
\* was no key, while another vehicle id had connections.
C3_Witness ==
    /\ lastcall.op = "disconnect"
    /\ lastcall.v \notin DOMAIN lastcall.before
    /\ lastcall.before # EmptyDict

\* ---- broadcast, as seen from the step in which it returns --------------------
\* Handler c's broadcast returns to the receive loop in this step.
Completes(c) == pc[c] = "broadcast" /\ pc'[c] = "receive"
\* The websockets send_text was called on during c's broadcast, in order; the
\* last one is the send awaited when the step begins.
Targets(c) == [i \in 1..Len(obs[c].tried) |-> obs[c].tried[i][1]] \o <<bc[c].cur>>
\* A send of c's broadcast has failed.
FailedSome(c) ==
    \/ \E i \in 1..Len(obs[c].tried) : ~obs[c].tried[i][2]
    \/ channel[bc[c].cur] = "closed"
\* How many times update n of handler c is on a client's stream.
Copies(stream, c, n) ==
    Cardinality({i \in 1..Len(stream) : stream[i].from = c /\ stream[i].n = n})
Registered(reg, k, v) == k \in Range(ListOf(reg, v))

\* C4 (as claimed): a broadcast in which a send failed returns normally, and
\* every other websocket registered under the vehicle id, its channel working,
\* has received the message.
C4_FailureIsolated ==
    [][\A c \in Conns :
        /\ pc[c] = "broadcast" => pc'[c] \in Open
        /\ (Completes(c) /\ FailedSome(c)) =>
              \A k \in Conns :
                 (/\ k \in Range(obs[c].start)
                  /\ Registered(active_connections', k, vid[c])
                  /\ channel'[k] = "open")
                 => Copies(received'[k], c, obs[c].n) >= 1]_vars

C6_MalformedDiscarded ==
    [][\A c \in Conns :
        ReceiveMalformed(c) =>
            /\ received' = received
            /\ vehicle_locations' = vehicle_locations
            /\ pc'[c] # "broadcast"
            /\ \A k \in Conns : bc'[k].message = bc[k].message]_vars

\* C6 witness: a handler ended by a malformed text, with a location cached for
\* its vehicle and a message already on a client's stream.
C6_Witness ==
    \E c, k \in Conns :
        /\ pc[c] = "errored"
        /\ vid[c] \in DOMAIN vehicle_locations
        /\ received[k] # <<>>

\* The registry entry of a vehicle id: whether it is a key, and its list.
Entry(reg, v) == <<v \in DOMAIN reg, ListOf(reg, v)>>

\* C7: a client only ever gets messages received on websockets of its own
\* vehicle id, and a step changes the registry entry of a vehicle id only if it
\* is a step of a handler of that vehicle id.
C7_VehicleIsolation ==
    /\ [](\A k \in Conns : \A i \in 1..Len(received[k]) :
             vid[received[k][i].from] = vid[k])
    /\ [][\A v \in Vehicles :
             Entry(active_connections', v) # Entry(active_connections, v)
             => \E c \in Conns : vid[c] = v /\ pc'[c] # pc[c]]_vars

\* C7 witness: an update was delivered under one vehicle id while a websocket
\* registered under another vehicle id, its channel open, has received nothing.
C7_Witness ==
    \E a, k \in Conns :
        /\ vid[a] # vid[k]
        /\ received[a] # <<>>
        /\ Registered(active_connections, k, vid[k])
        /\ channel[k] = "open"
        /\ received[k] = <<>>

C9_ConsistentIteration ==
    [][\A c \in Conns :
        Completes(c) =>
            /\ NoDup(Targets(c))
            /\ \A k \in Range(obs[c].start) :
                  Registered(active_connections', k, vid[c]) => k \in Range(Targets(c))]_vars

FailedTargets(c) ==
    {obs[c].tried[i][1] : i \in {j \in 1..Len(obs[c].tried) : ~obs[c].tried[j][2]}}
      \cup (IF channel[bc[c].cur] = "closed" THEN {bc[c].cur} ELSE {})

\* C11 (as claimed): when a broadcast has returned, no websocket that one of its
\* sends failed against is in the registry.
C11_FailedSendPruned ==
    [][\A c \in Conns :
        Completes(c) =>
            \A k \in FailedTargets(c), v \in Vehicles :
                ~Registered(active_connections', k, v)]_vars

C13_NeverSuspendedOnSend ==
    \A c \in Conns :
        pc[c] = "broadcast" =>
            /\ bc[c].cur = c
            /\ ~ForHasNext(active_connections, vid[c], bc[c])

\* C14: a websocket is in the registry only while its handler is in its loop
\* (OPEN), and only under its own vehicle id; a handler goes from connecting to
\* its loop to closed, and a closed handler never moves, registers or sends.
C14_RegisteredOnlyWhileOpen ==
    /\ [](\A c \in Conns, v \in Vehicles :
             Registered(active_connections, c, v) => (pc[c] \in Open /\ v = vid[c]))
    /\ [][\A c \in Conns :
             /\ pc[c] = "connect" => pc'[c] \in {"connect", "receive", "aborted"}
             /\ pc[c] \in Open => pc'[c] \in Open \cup {"disconnected", "errored"}
             /\ pc[c] \in Closed =>
                   /\ pc'[c] = pc[c]
                   /\ bc'[c] = bc[c] /\ obs'[c] = obs[c]
                   /\ \A v \in Vehicles : ~Registered(active_connections', c, v)]_vars

\* C14 witness: one handler has left its loop and is out of the registry while
\* another, of the same vehicle, is registered and inside a broadcast.
C14_Witness ==
    \E c, k \in Conns :
        /\ pc[c] \in {"disconnected", "errored"}
        /\ vid[k] = vid[c] /\ pc[k] = "broadcast"
        /\ Registered(active_connections, k, vid[k])
        /\ ~Registered(active_connections, c, vid[c])

\* C15: a failed accept creates no state: the registry and vehicle_locations
\* are as before, nothing is sent, the handler ends without entering its loop,
\* and its websocket is never in the registry afterwards.
C15_HandshakeFailureNoState ==
    /\ [][\A c \in Conns :
             AcceptFail(c) =>
                 /\ active_connections' = active_connections
                 /\ vehicle_locations' = vehicle_locations
                 /\ received' = received
                 /\ pc'[c] \notin Open]_vars
    /\ [](\A c \in Conns :
             pc[c] = "aborted" =>
                 /\ \A v \in Vehicles : ~Registered(active_connections, c, v)
                 /\ obs[c] = NoObs /\ received[c] = <<>>)

\* C15 witness: a handshake failed for the only websocket of a vehicle id:
\* the id is no key, while another vehicle id has a registered websocket.
C15_Witness ==
    \E c \in Conns :
        /\ pc[c] = "aborted"
        /\ vid[c] \notin DOMAIN active_connections
        /\ active_connections # EmptyDict

\* C16: broadcast for a vehicle id with no registered websocket sends nothing,
\* raises nothing and leaves the registry as it was, the id still no key.
C16_BroadcastNoConnections ==
    (lastcall.op = "broadcast" /\ ListOf(lastcall.before, lastcall.v) = <<>>)
    => /\ lastcall.err = "none"
       /\ received = lastcall.streams
       /\ active_connections = lastcall.before
       /\ lastcall.v \notin DOMAIN active_connections

\* C16 witness: broadcast was called for a vehicle id that is no key while a
\* websocket is registered under another id.
C16_Witness ==
    /\ lastcall.op = "broadcast"
    /\ lastcall.v \notin DOMAIN lastcall.before
    /\ lastcall.before # EmptyDict

\* C17 (as claimed): two updates of different publishers of one vehicle are
\* seen in the same relative order by every client that has received both.
C17_SingleTotalOrder ==
    \A k1, k2 \in Conns :
        \A i, j \in 1..Len(received[k1]) :
            \A i2, j2 \in 1..Len(received[k2]) :
                ( /\ i < j
                  /\ received[k1][i].from # received[k1][j].from
                  /\ vid[received[k1][i].from] = vid[received[k1][j].from]
                  /\ received[k2][i2] = received[k1][i]
                  /\ received[k2][j2] = received[k1][j] )
                => i2 < j2

\* The location cached for vehicle v, NoLoc when there is none.
CacheOf(cache, v) == IF v \in DOMAIN cache THEN cache[v] ELSE NoLoc

\* C18: the cache entry of a vehicle changes only in a step where a handler of
\* that vehicle parses an update, and then holds the parsed value, before any
\* send of the broadcast of that update; a vehicle has an entry exactly when an
\* update of it has been parsed, whatever has disconnected since.
C18_LatestPositionCache ==
    /\ [][\A v \in Vehicles :
            LET parsers == {c \in Conns : vid[c] = v /\ obs'[c].n # obs[c].n}
            IN  /\ CacheOf(vehicle_locations', v) # CacheOf(vehicle_locations, v)
                      => parsers # {}
                /\ \A c \in parsers :
                      /\ pc[c] = "receive" /\ pc'[c] = "broadcast"
                      /\ ~json_loads_raises(obs'[c].src)
                      /\ CacheOf(vehicle_locations', v) = json_loads(obs'[c].src)
                      /\ bc'[c].message = json_dumps(CacheOf(vehicle_locations', v))
                      /\ received' = received]_vars
    /\ [](\A v \in Vehicles :
             v \in DOMAIN vehicle_locations
                 <=> \E c \in Conns : vid[c] = v /\ obs[c].n > 0)

\* C18 witness: two updates of a vehicle were parsed, the second one differing
\* from the first, every websocket of the vehicle has gone and the cache holds
\* a location for it.
C18_Witness ==
    \E v \in DOMAIN vehicle_locations :
        /\ v \notin DOMAIN active_connections
        /\ \E c \in Conns :
              /\ vid[c] = v /\ obs[c].n = 2
              /\ Len(received[c]) = 2
              /\ received[c][1].text # received[c][2].text
              /\ json_dumps(vehicle_locations[v]) = received[c][2].text

====
